---- MODULE Spec2Model ----
(***************************************************************************)
(* A model of src/src/functions.js: the heightmap sampler                  *)
(* (getZFromImageDataPoint), the scene construction of app.initScene       *)
(* (background and heightmap loading, terrain grids, seam stitching, the   *)
(* grid-line path, the placement of the mesh sets) and the per-frame       *)
(* scrolling of app.updateScene.                                           *)
(*                                                                         *)
(* Numbers.  JavaScript numbers are modelled by exact integers:            *)
(*  - a texture coordinate u or v in [0,1] is a fraction <<n, d>> = n/d;   *)
(*  - an elevation red / 255 * displacementScale is kept as its numerator  *)
(*    red * displacementScale over the fixed denominator ChannelMax;       *)
(*  - positions along z are whole world units.                             *)
(* Arrays are 0-indexed functions (typed arrays) or sequences (arrays      *)
(* built with push; element k of the source is element k+1 here).          *)
(* Only the z component (offset index*3 + 2) of a position buffer is       *)
(* kept: lines 242-265 read and write no other component.                  *)
(***************************************************************************)
EXTENDS Integers, Sequences, FiniteSets, TLC

VARIABLES
    terrainWidth,            \* const terrainWidth  (cells along x)
    terrainHeight,           \* const terrainHeight (cells along y)
    speed,                   \* params.speed
    HeightMap,               \* the heightmap asset behind the HeightMap url
    pc,                      \* where the async function initScene stands
    loopI,                   \* the i of the loop of lines 225-256
    loads,                   \* the image loads started so far, in order
    consoleLog,              \* what console.log has been given
    background,              \* scene.background
    sceneChildren,           \* the objects added with scene.add
    hm_imageData,            \* var hm_imageData
    geometryPositionsArray,  \* let geometryPositionsArray
    lineGeometries,          \* let lineGeometries
    meshGroup,               \* this.meshGroup
    lineGroup,               \* this.lineGroup
    frames,                  \* number of updateScene calls made (observer)
    wraps,                   \* per mesh set, the wraps seen so far (observer)
    call                     \* the last call of getZFromImageDataPoint

vars == <<terrainWidth, terrainHeight, speed, HeightMap, pc, loopI, loads,
          consoleLog, background, sceneChildren, hm_imageData,
          geometryPositionsArray, lineGeometries, meshGroup, lineGroup,
          frames, wraps, call>>

(***************************************************************************)
(* Bounds of the model.                                                    *)
(***************************************************************************)
MaxTerrainWidth == 3
MaxTerrainHeight == 3
MaxImageWidth == 2
MaxImageHeight == 2
MaxDenominator == 3
MaxSpeed == 3
MaxInterval == 5
MaxScrollFrames == 6
MaxFrames == 120

(***************************************************************************)
(* Program constants.                                                      *)
(***************************************************************************)
displacementScale == 5
ChannelMax == 255
numOfMeshSets == 6
ConfiguredTerrainHeight == 30

\* red / 255 * 5 of an undefined red (a read outside imageData.data) is NaN;
\* it is modelled by a number no elevation numerator can be.
NaN == 0 - 1

NoImage == [width |-> 0, height |-> 0, data |-> <<>>]
NoCall == [u |-> <<0, 1>>, v |-> <<0, 1>>, index |-> 0 - 1, ret |-> NaN]

(***************************************************************************)
(* Inputs: texture coordinates in [0,1] and greyscale rasters.             *)
(***************************************************************************)
Fractions == UNION {{<<n, d>> : n \in 0..d} : d \in 1..MaxDenominator}

Levels == {0, ChannelMax}

\* What context.getImageData gives for a w x h greyscale raster px: four
\* bytes per pixel, red = green = blue = the brightness, alpha opaque.
ImageData(w, h, px) ==
    [width |-> w, height |-> h,
     data |-> [k \in 0..(w * h * 4 - 1) |->
                  IF k % 4 = 3 THEN ChannelMax ELSE px[k \div 4]]]

Images ==
    UNION {{ImageData(w, h, px) : px \in [0..(w * h - 1) -> Levels]} :
              w \in 1..MaxImageWidth, h \in 1..MaxImageHeight}

(***************************************************************************)
(* getZFromImageDataPoint (lines 43-52).                                   *)
(***************************************************************************)
\* Math.round of n/d for d > 0: the nearest integer, a half rounded up.
Round(n, d) == (2 * n + d) \div (2 * d)

\* A bug the law of C5 must notice: u scaled by the width, not width - 1.
SampleXScaledByWidth(u, mapWidth) == Round(u[1] * mapWidth, u[2])

\* var x = Math.round(u * (mapWidth - 1))
SampleX(u, mapWidth) == Round(u[1] * (mapWidth - 1), u[2])

\* A bug the law of C6 must notice: v taken without the inversion.
SampleYNotInverted(v, mapHeight) == Round(v[1] * (mapHeight - 1), v[2])

\* var y = Math.round((1 - v) * (mapHeight - 1))
SampleY(v, mapHeight) == Round((v[2] - v[1]) * (mapHeight - 1), v[2])

\* var index = (y * imageData.width + x) * 4
SampleIndex(imageData, u, v, cvWidth, cvHeight) ==
    (SampleY(v, cvHeight) * imageData.width + SampleX(u, cvWidth)) * 4

\* var red = imageData.data[index]; return red / 255 * displacementScale
getZFromImageDataPoint(imageData, u, v, cvWidth, cvHeight) ==
    LET index == SampleIndex(imageData, u, v, cvWidth, cvHeight)
    IN  IF index \in DOMAIN imageData.data
        THEN imageData.data[index] * displacementScale
        ELSE NaN

\* One call of the sampler on the rasterised heightmap, with the raster's
\* own dimensions as cvWidth and cvHeight (as at line 246).  The arguments
\* u and v are those drawn initially into the call record.
CallSampler ==
    /\ pc = "sampler"
    /\ pc' = "sampled"
    /\ call' = [call EXCEPT
                  !.index = SampleIndex(hm_imageData, call.u, call.v,
                                hm_imageData.width, hm_imageData.height),
                  !.ret = getZFromImageDataPoint(hm_imageData, call.u, call.v,
                                hm_imageData.width, hm_imageData.height)]
    /\ UNCHANGED <<terrainWidth, terrainHeight, speed, HeightMap, loopI,
                   loads, consoleLog, background, sceneChildren, hm_imageData,
                   geometryPositionsArray, lineGeometries, meshGroup,
                   lineGroup, frames, wraps>>

\* The parts of the state an operation under study does not use.
NoScene ==
    /\ loopI = 0
    /\ loads = <<>>
    /\ consoleLog = <<>>
    /\ background = "none"
    /\ sceneChildren = {}
    /\ geometryPositionsArray = <<>>
    /\ lineGeometries = <<>>

SamplerInit ==
    /\ terrainWidth = 1
    /\ terrainHeight = 1
    /\ speed = 1
    /\ HeightMap \in Images
    /\ hm_imageData = HeightMap
    /\ pc = "sampler"
    /\ NoScene
    /\ meshGroup = <<>>
    /\ lineGroup = <<>>
    /\ frames = 0
    /\ wraps = [k \in 1..numOfMeshSets |-> 0]
    /\ \E u \in Fractions, v \in Fractions :
          call = [NoCall EXCEPT !.u = u, !.v = v]

SamplerNext == CallSampler

SpecSampler == SamplerInit /\ [][SamplerNext]_vars

(***************************************************************************)
(* initScene: loading (lines 201-215, loadSceneBackground lines 8-25).     *)
(***************************************************************************)
\* A load in flight or finished: what is loaded and how it ended.
Load(what, outcome) == [what |-> what, outcome |-> outcome]

\* The last started load ends with the given outcome.
EndLoad(outcome) == [loads EXCEPT ![Len(loads)].outcome = outcome]

\* initScene up to its first await: the controls are made and
\* loadSceneBackground starts loading the texture (lines 202-207, 9-11).
StartInitScene ==
    /\ pc = "start"
    /\ pc' = "background"
    /\ loads' = Append(loads, Load("background", "pending"))
    /\ UNCHANGED <<terrainWidth, terrainHeight, speed, HeightMap, loopI,
                   consoleLog, background, sceneChildren, hm_imageData,
                   geometryPositionsArray, lineGeometries, meshGroup,
                   lineGroup, frames, wraps, call>>

\* The loader's onLoad callback (lines 11-19): the texture becomes the
\* background and the promise resolves; initScene goes on to the lights.
BackgroundLoaded ==
    /\ pc = "background"
    /\ loads' = EndLoad("loaded")
    /\ background' = "texture"
    /\ pc' = "lights"
    /\ UNCHANGED <<terrainWidth, terrainHeight, speed, HeightMap, loopI,
                   consoleLog, sceneChildren, hm_imageData,
                   geometryPositionsArray, lineGeometries, meshGroup,
                   lineGroup, frames, wraps, call>>

\* A bug the law of C8 must notice: the error is logged but the promise is
\* resolved, so that initScene goes on without a background.
BackgroundErrorSwallowed ==
    /\ pc = "background"
    /\ loads' = EndLoad("error")
    /\ consoleLog' = Append(consoleLog, "background error")
    /\ pc' = "lights"
    /\ UNCHANGED <<terrainWidth, terrainHeight, speed, HeightMap, loopI,
                   background, sceneChildren, hm_imageData,
                   geometryPositionsArray, lineGeometries, meshGroup,
                   lineGroup, frames, wraps, call>>

\* The loader's onError callback (lines 20-23): the error is logged and the
\* promise rejected; the await of line 207 throws and initScene rejects.
BackgroundError ==
    /\ pc = "background"
    /\ loads' = EndLoad("error")
    /\ consoleLog' = Append(consoleLog, "background error")
    /\ pc' = "rejected"
    /\ UNCHANGED <<terrainWidth, terrainHeight, speed, HeightMap, loopI,
                   background, sceneChildren, hm_imageData,
                   geometryPositionsArray, lineGeometries, meshGroup,
                   lineGroup, frames, wraps, call>>

\* Lines 209-220: the two directional lights, then the loop of line 225
\* is entered with i = 0.
AddLights ==
    /\ pc = "lights"
    /\ sceneChildren' = sceneChildren \cup {<<"dirLight", 1>>, <<"dirLight", 2>>}
    /\ loopI' = 0
    /\ pc' = "loop"
    /\ UNCHANGED <<terrainWidth, terrainHeight, speed, HeightMap, loads,
                   consoleLog, background, hm_imageData,
                   geometryPositionsArray, lineGeometries, meshGroup,
                   lineGroup, frames, wraps, call>>

\* The head of the loop of line 225: while i < 2 the heightmap is loaded
\* once more (line 228); after that the loop is left.
LoopHead ==
    /\ pc = "loop"
    /\ IF loopI < 2
       THEN /\ loads' = Append(loads, Load("heightmap", "pending"))
            /\ pc' = "heightmap"
       ELSE /\ loads' = loads
            /\ pc' = "stitch"
    /\ UNCHANGED <<terrainWidth, terrainHeight, speed, HeightMap, loopI,
                   consoleLog, background, sceneChildren, hm_imageData,
                   geometryPositionsArray, lineGeometries, meshGroup,
                   lineGroup, frames, wraps, call>>

\* loadImage of ./common-utils fails: its promise is rejected, the await of
\* line 228 throws and initScene rejects.
HeightmapError ==
    /\ pc = "heightmap"
    /\ loads' = EndLoad("error")
    /\ pc' = "rejected"
    /\ UNCHANGED <<terrainWidth, terrainHeight, speed, HeightMap, loopI,
                   consoleLog, background, sceneChildren, hm_imageData,
                   geometryPositionsArray, lineGeometries, meshGroup,
                   lineGroup, frames, wraps, call>>

(***************************************************************************)
(* initScene: the terrain grids (lines 229-256).                           *)
(***************************************************************************)
VertexCount == (terrainWidth + 1) * (terrainHeight + 1)

\* The uv attribute of PlaneGeometry(terrainWidth, terrainHeight,
\* terrainWidth, terrainHeight) (lines 237-239, 243-244): the vertices are
\* laid out row by row, terrainWidth + 1 to a row, u = ix / terrainWidth
\* and v = 1 - iy / terrainHeight.
VertexU(index) == <<index % (terrainWidth + 1), terrainWidth>>
VertexV(index) ==
    <<terrainHeight - (index \div (terrainWidth + 1)), terrainHeight>>

\* 1 - u of line 246.
OneMinus(u) == <<u[2] - u[1], u[2]>>

\* Lines 242-248: the z of every vertex is what the sampler gives for its
\* uv, u mirrored for the second geometry, on the canvas the image was
\* drawn to (whose width and height are the image's, lines 230-234).
BuildGeometryPositions(i, imageData) ==
    [index \in 0..(VertexCount - 1) |->
        getZFromImageDataPoint(imageData,
            IF i = 0 THEN VertexU(index) ELSE OneMinus(VertexU(index)),
            VertexV(index), imageData.width, imageData.height)]

\* The heightmap image has loaded (line 228): lines 229-256 rasterise it,
\* build the geometry of this turn of the loop and push its positions.
HeightmapLoaded ==
    /\ pc = "heightmap"
    /\ loads' = EndLoad("loaded")
    /\ hm_imageData' = HeightMap
    /\ geometryPositionsArray' =
           Append(geometryPositionsArray, BuildGeometryPositions(loopI, HeightMap))
    /\ loopI' = loopI + 1
    /\ pc' = "loop"
    /\ UNCHANGED <<terrainWidth, terrainHeight, speed, HeightMap,
                   consoleLog, background, sceneChildren, lineGeometries,
                   meshGroup, lineGroup, frames, wraps, call>>

(***************************************************************************)
(* initScene: zipping up the gaps (lines 258-265).                         *)
(***************************************************************************)
\* A bug the law of C1 must notice: the bottom row's offset computed with
\* the number of cells in a row, not the number of vertices.
BottomOffsetByCells == terrainWidth * terrainHeight

\* let bottomOffset = (terrainWidth + 1) * terrainHeight
BottomOffset == (terrainWidth + 1) * terrainHeight

\* One turn of the loop: the two assignments of lines 262 and 264, in that
\* order, each reading the arrays as the one before left them.
StitchColumn(gpa, index) ==
    LET first == [gpa EXCEPT ![2][BottomOffset + index] = gpa[1][index]]
    IN  [first EXCEPT ![1][BottomOffset + index] = first[2][index]]

RECURSIVE StitchLoop(_, _)
StitchLoop(gpa, index) ==
    IF index <= terrainWidth
    THEN StitchLoop(StitchColumn(gpa, index), index + 1)
    ELSE gpa

Stitch ==
    /\ pc = "stitch"
    /\ geometryPositionsArray' = StitchLoop(geometryPositionsArray, 0)
    /\ pc' = "lines"
    /\ UNCHANGED <<terrainWidth, terrainHeight, speed, HeightMap, loopI,
                   loads, consoleLog, background, sceneChildren, hm_imageData,
                   lineGeometries, meshGroup, lineGroup, frames, wraps, call>>

(***************************************************************************)
(* initScene: the grid lines (lines 277-302).  A line's positions are kept *)
(* as the offsets into the geometry's position buffer they were copied     *)
(* from, three to a point (lines 293-295).                                 *)
(***************************************************************************)
\* A bug the law of C3 must notice: every row walked left to right.
IsEvenRowAlways(row) == TRUE

\* let isEvenRow = row % 2 == 0
IsEvenRow(row) == row % 2 = 0

\* A bug the law of C4 must notice: the next row reached by terrainWidth + 1
\* on top of col + point.
MappedIndexPastRow(row, col, point) ==
    LET rowOffset == row * (terrainWidth + 1)
    IN  IF point < 2
        THEN rowOffset + col + point
        ELSE rowOffset + col + point + terrainWidth + 1

\* Lines 285-291.
MappedIndex(row, col, point) ==
    LET rowOffset == row * (terrainWidth + 1)
    IN  IF point < 2
        THEN rowOffset + col + point
        ELSE rowOffset + col + point + terrainWidth - 1

\* The loop of line 284, from `point` on: what it pushes (lines 293-295).
RECURSIVE PointLoop(_, _, _)
PointLoop(row, col, point) ==
    IF (IF IsEvenRow(row) THEN point < 4 ELSE point >= 0)
    THEN LET mappedIndex == MappedIndex(row, col, point)
         IN  <<mappedIndex * 3, mappedIndex * 3 + 1, mappedIndex * 3 + 2>>
               \o PointLoop(row, col,
                            IF IsEvenRow(row) THEN point + 1 ELSE point - 1)
    ELSE <<>>

\* The loop of line 283, from `col` on: what it pushes.
RECURSIVE ColLoop(_, _)
ColLoop(row, col) ==
    IF (IF IsEvenRow(row) THEN col < terrainWidth ELSE col >= 0)
    THEN PointLoop(row, col, IF IsEvenRow(row) THEN 0 ELSE 3)
           \o ColLoop(row, IF IsEvenRow(row) THEN col + 1 ELSE col - 1)
    ELSE <<>>

\* The loop of line 281, from `row` on: what it pushes.
RECURSIVE RowLoop(_)
RowLoop(row) ==
    IF row < terrainHeight
    THEN ColLoop(row, IF IsEvenRow(row) THEN 0 ELSE terrainWidth - 1)
           \o RowLoop(row + 1)
    ELSE <<>>

\* Lines 277-302: one line geometry for each of the two plane geometries.
BuildLines ==
    /\ pc = "lines"
    /\ lineGeometries' = <<RowLoop(0), RowLoop(0)>>
    /\ pc' = "meshSets"
    /\ UNCHANGED <<terrainWidth, terrainHeight, speed, HeightMap, loopI,
                   loads, consoleLog, background, sceneChildren, hm_imageData,
                   geometryPositionsArray, meshGroup, lineGroup, frames,
                   wraps, call>>

(***************************************************************************)
(* initScene: the mesh sets (lines 312-330) and the rest (lines 332-401).  *)
(* A mesh or a line is kept as the index of the geometry it shows and its  *)
(* position.z; x, y and the rotation are the same for all and never change.*)
(***************************************************************************)
MeshSets == 0..(numOfMeshSets - 1)

\* A bug the law of C10 must notice: the first half of the sets bound to
\* the first geometry, the second half to the second.
GeometryIndexByHalf(i) == IF 2 * i < numOfMeshSets THEN 0 ELSE 1

\* planeGeometries[i % 2], lineGeometries[i % 2]
GeometryIndex(i) == i % 2

\* mesh.position.set(0, -1.5, -terrainHeight * i), and the same for the line.
PlacedAt(i) == [geometry |-> GeometryIndex(i), z |-> 0 - terrainHeight * i]

CreateMeshSets ==
    /\ pc = "meshSets"
    /\ meshGroup' = [k \in 1..numOfMeshSets |-> PlacedAt(k - 1)]
    /\ lineGroup' = [k \in 1..numOfMeshSets |-> PlacedAt(k - 1)]
    /\ sceneChildren' = sceneChildren
                          \cup {<<"mesh", i>> : i \in MeshSets}
                          \cup {<<"line", i>> : i \in MeshSets}
    /\ pc' = "sun"
    /\ UNCHANGED <<terrainWidth, terrainHeight, speed, HeightMap, loopI,
                   loads, consoleLog, background, hm_imageData,
                   geometryPositionsArray, lineGeometries, frames, wraps, call>>

\* Lines 332-401: the sun, the GUI and the stats panel; initScene resolves.
FinishInitScene ==
    /\ pc = "sun"
    /\ sceneChildren' = sceneChildren \cup {<<"sun", 0>>}
    /\ pc' = "resolved"
    /\ UNCHANGED <<terrainWidth, terrainHeight, speed, HeightMap, loopI,
                   loads, consoleLog, background, hm_imageData,
                   geometryPositionsArray, lineGeometries, meshGroup,
                   lineGroup, frames, wraps, call>>

\* The GUI's speed slider (line 347), on its whole values.
Speeds == 1..MaxSpeed

SetSpeed(val) ==
    /\ pc = "resolved"
    /\ speed' = val
    /\ UNCHANGED <<terrainWidth, terrainHeight, HeightMap, pc, loopI,
                   loads, consoleLog, background, sceneChildren, hm_imageData,
                   geometryPositionsArray, lineGeometries, meshGroup,
                   lineGroup, frames, wraps, call>>

(***************************************************************************)
(* updateScene (lines 405-417).  The animation loop calls it once initScene*)
(* has resolved (line 196).                                                *)
(***************************************************************************)
\* A bug the laws of C7 must notice: the wrap one tile short.
WrapDistanceOneShort == (numOfMeshSets - 1) * terrainHeight

\* numOfMeshSets * terrainHeight
WrapDistance == numOfMeshSets * terrainHeight

\* The body of the loop for one mesh set: both positions advance, and when
\* the mesh's has reached terrainHeight both are moved back.
Advanced(mesh, line, interval) ==
    LET meshZ == mesh.z + interval * speed
        lineZ == line.z + interval * speed
    IN  IF meshZ >= terrainHeight
        THEN [mesh |-> [mesh EXCEPT !.z = meshZ - WrapDistance],
              line |-> [line EXCEPT !.z = lineZ - WrapDistance]]
        ELSE [mesh |-> [mesh EXCEPT !.z = meshZ],
              line |-> [line EXCEPT !.z = lineZ]]

UpdateScene(interval) ==
    /\ pc = "resolved"
    /\ meshGroup' = [k \in 1..numOfMeshSets |->
                        Advanced(meshGroup[k], lineGroup[k], interval).mesh]
    /\ lineGroup' = [k \in 1..numOfMeshSets |->
                        Advanced(meshGroup[k], lineGroup[k], interval).line]
    /\ UNCHANGED <<terrainWidth, terrainHeight, speed, HeightMap, pc, loopI,
                   loads, consoleLog, background, sceneChildren, hm_imageData,
                   geometryPositionsArray, lineGeometries, call>>

\* A frame with the observers running: the calls are counted, up to
\* maxFrames of them, and for each mesh set the times its mesh did not end
\* where the advance alone leads.
CountedFrame(interval, maxFrames) ==
    /\ frames < maxFrames
    /\ UpdateScene(interval)
    /\ frames' = frames + 1
    /\ wraps' = [k \in 1..numOfMeshSets |->
                   IF meshGroup'[k].z = meshGroup[k].z + interval * speed
                   THEN wraps[k] ELSE wraps[k] + 1]

(***************************************************************************)
(* Specifications.                                                         *)
(***************************************************************************)
\* The state when initScene is called.
BeforeInitScene ==
    /\ pc = "start"
    /\ hm_imageData = NoImage
    /\ NoScene
    /\ meshGroup = <<>>
    /\ lineGroup = <<>>
    /\ frames = 0
    /\ wraps = [k \in 1..numOfMeshSets |-> 0]
    /\ call = NoCall

InitSceneStep ==
    \/ StartInitScene
    \/ BackgroundLoaded
    \/ BackgroundError
    \/ AddLights
    \/ LoopHead
    \/ HeightmapLoaded
    \/ HeightmapError
    \/ Stitch
    \/ BuildLines
    \/ CreateMeshSets
    \/ FinishInitScene

\* Scene construction, for every small terrain and heightmap.
Init ==
    /\ terrainWidth \in 1..MaxTerrainWidth
    /\ terrainHeight \in 1..MaxTerrainHeight
    /\ speed = 1
    /\ HeightMap \in Images
    /\ BeforeInitScene

Next == InitSceneStep

Spec == Init /\ [][Next]_vars

\* Scene construction on a flat heightmap, then a few frames of any length
\* at any speed of the slider.
FlatHeightMap == ImageData(1, 1, [k \in {0} |-> ChannelMax])

ScrollInit ==
    /\ terrainWidth = 1
    /\ terrainHeight \in 1..MaxTerrainHeight
    /\ speed \in Speeds
    /\ HeightMap = FlatHeightMap
    /\ BeforeInitScene

ScrollNext ==
    \/ InitSceneStep
    \/ \E val \in Speeds : SetSpeed(val)
    \/ \E interval \in 0..MaxInterval : CountedFrame(interval, MaxScrollFrames)

SpecScroll == ScrollInit /\ [][ScrollNext]_vars

\* The wraparound scenario: the configured terrainHeight (on a terrain one
\* cell wide, the width playing no part in updateScene), speed 1, and frames
\* of interval 1.
WrapInit ==
    /\ terrainWidth = 1
    /\ terrainHeight = ConfiguredTerrainHeight
    /\ speed = 1
    /\ HeightMap = FlatHeightMap
    /\ BeforeInitScene

WrapNext ==
    \/ InitSceneStep
    \/ CountedFrame(1, MaxFrames)

SpecWrap == WrapInit /\ [][WrapNext]_vars

(***************************************************************************)
(* Vocabulary of the properties.                                           *)
(***************************************************************************)
\* The vertex at grid row r, column c, and the row and column of a vertex.
Vertex(r, c) == r * (terrainWidth + 1) + c
RowOf(vertex) == vertex \div (terrainWidth + 1)
ColOf(vertex) == vertex % (terrainWidth + 1)

Abs(n) == IF n < 0 THEN 0 - n ELSE n

\* The line geometries have been built.
LinesBuilt == pc \in {"meshSets", "sun", "resolved"}

\* The number of points of a line path, and the vertex its k-th point
\* (k = 1, 2, ...) was copied from.
PointCount(path) == Len(path) \div 3
PathVertex(path, k) == path[3 * k - 2] \div 3

\* The vertices a and b are consecutive points somewhere in the path.
Drawn(path, a, b) ==
    \E k \in 1..(PointCount(path) - 1) :
        {PathVertex(path, k), PathVertex(path, k + 1)} = {a, b}

\* The pixel row of the raster a sampler call has read.
RowRead == (call.index \div 4) \div hm_imageData.width

\* Some load has failed.
SomeLoadFailed == \E k \in 1..Len(loads) : loads[k].outcome = "error"

NoTerrainTile ==
    /\ meshGroup = <<>>
    /\ lineGroup = <<>>
    /\ \A i \in MeshSets :
          <<"mesh", i>> \notin sceneChildren /\ <<"line", i>> \notin sceneChildren

(***************************************************************************)
(* Properties.                                                             *)
(***************************************************************************)
\* C1: the stitch loop leaves in the bottom row of each geometry, at every
\* column 0..terrainWidth, the elevation the other geometry's top row had
\* before the loop ran.
C1_StitchFromPreStitchTopRows ==
    [][(pc = "stitch" /\ pc' = "lines") =>
         \A i \in 0..terrainWidth :
            /\ geometryPositionsArray'[1][terrainHeight * (terrainWidth + 1) + i]
                 = geometryPositionsArray[2][i]
            /\ geometryPositionsArray'[2][terrainHeight * (terrainWidth + 1) + i]
                 = geometryPositionsArray[1][i]]_vars

\* A stitched pair whose top rows differ at some column.
C1_Witness ==
    /\ pc = "lines"
    /\ terrainWidth >= 2
    /\ \E i \in 0..terrainWidth :
          /\ geometryPositionsArray[1][i] # geometryPositionsArray[2][i]
          /\ geometryPositionsArray[1][Vertex(terrainHeight, i)]
               = geometryPositionsArray[2][i]
          /\ geometryPositionsArray[2][Vertex(terrainHeight, i)]
               = geometryPositionsArray[1][i]

\* C2: every side of every cell (top, bottom, left, right) is a pair of
\* consecutive points of each line path.
C2_EveryCellEdgeDrawn ==
    LinesBuilt =>
      \A g \in 1..2 : \A r \in 0..(terrainHeight - 1), c \in 0..(terrainWidth - 1) :
         /\ Drawn(lineGeometries[g], Vertex(r, c), Vertex(r, c + 1))
         /\ Drawn(lineGeometries[g], Vertex(r + 1, c), Vertex(r + 1, c + 1))
         /\ Drawn(lineGeometries[g], Vertex(r, c), Vertex(r + 1, c))
         /\ Drawn(lineGeometries[g], Vertex(r, c + 1), Vertex(r + 1, c + 1))

\* C3: two consecutive points of a line path are vertices whose rows differ
\* by at most 1 and whose columns differ by at most 1.
C3_PathAdjacency ==
    LinesBuilt =>
      \A g \in 1..2 : \A k \in 1..(PointCount(lineGeometries[g]) - 1) :
         LET a == PathVertex(lineGeometries[g], k)
             b == PathVertex(lineGeometries[g], k + 1)
         IN  /\ Abs(RowOf(a) - RowOf(b)) <= 1
             /\ Abs(ColOf(a) - ColOf(b)) <= 1

\* A path that goes from a row walked left to right into the next one, at
\* the last column.
C3_Witness ==
    /\ LinesBuilt
    /\ terrainWidth >= 2
    /\ terrainHeight >= 2
    /\ PathVertex(lineGeometries[1], 4 * terrainWidth) = Vertex(1, terrainWidth)
    /\ PathVertex(lineGeometries[1], 4 * terrainWidth + 1) = Vertex(2, terrainWidth)

\* C4: a line path has terrainWidth * terrainHeight * 4 points of 3 scalars,
\* each point the x, y and z of one vertex of the geometry.
C4_PathLength ==
    LinesBuilt =>
      \A g \in 1..2 :
         /\ Len(lineGeometries[g]) = terrainWidth * terrainHeight * 4 * 3
         /\ \A k \in 1..(terrainWidth * terrainHeight * 4) :
               \E mappedIndex \in 0..((terrainWidth + 1) * (terrainHeight + 1) - 1) :
                  /\ lineGeometries[g][3 * k - 2] = mappedIndex * 3
                  /\ lineGeometries[g][3 * k - 1] = mappedIndex * 3 + 1
                  /\ lineGeometries[g][3 * k] = mappedIndex * 3 + 2

\* A path over several rows and columns that reaches the last vertex of
\* the geometry.
C4_Witness ==
    /\ LinesBuilt
    /\ terrainWidth >= 2
    /\ terrainHeight >= 2
    /\ \E k \in 1..PointCount(lineGeometries[2]) :
          PathVertex(lineGeometries[2], k) = VertexCount - 1

\* C5: the sampler reads a red entry inside imageData.data and returns a
\* value in [0, displacementScale].
C5_SamplerRange ==
    pc = "sampled" =>
       /\ call.index \in DOMAIN hm_imageData.data
       /\ call.index % 4 = 0
       /\ call.ret >= 0
       /\ call.ret <= displacementScale * ChannelMax

\* The last pixel of a raster of several rows and columns, fully bright.
C5_Witness ==
    /\ pc = "sampled"
    /\ hm_imageData.width >= 2
    /\ hm_imageData.height >= 2
    /\ call.u[1] = call.u[2]
    /\ call.v[1] = 0
    /\ call.index = (hm_imageData.width * hm_imageData.height - 1) * 4
    /\ call.ret = displacementScale * ChannelMax

\* C6: with v = 0 the sampler reads the last pixel row, with v = 1 the first,
\* and in general the row nearest to (1 - v) * (height - 1), a half rounded
\* up.
C6_SamplerInversion ==
    pc = "sampled" =>
       LET n == call.v[1]
           d == call.v[2]
           H == hm_imageData.height
       IN  /\ n = 0 => RowRead = H - 1
           /\ n = d => RowRead = 0
           /\ 2 * d * RowRead <= 2 * (d - n) * (H - 1) + d
           /\ 2 * (d - n) * (H - 1) + d < 2 * d * (RowRead + 1)

\* v = 0 on a raster of several rows: the last row is read, not the first.
C6_Witness ==
    /\ pc = "sampled"
    /\ hm_imageData.height >= 2
    /\ call.v[1] = 0
    /\ RowRead = hm_imageData.height - 1

\* C7: with an advance of 1 a call, terrainHeight 30 and 6 mesh sets, after
\* 30 calls the set that started at z = 0 has wrapped exactly once and is at
\* 0 - numOfMeshSets * terrainHeight + 30, its line with it; and every wrap
\* moves mesh and line back by exactly numOfMeshSets * terrainHeight.
C7_WrapScenario ==
    /\ [](frames = 30 =>
            /\ wraps[1] = 1
            /\ meshGroup[1].z = 0 - numOfMeshSets * terrainHeight + 30
            /\ lineGroup[1].z = 0 - numOfMeshSets * terrainHeight + 30)
    /\ [][\A k \in 1..numOfMeshSets :
            (frames' = frames + 1 /\ wraps'[k] # wraps[k]) =>
               /\ meshGroup'[k].z =
                    meshGroup[k].z + 1 - numOfMeshSets * terrainHeight
               /\ lineGroup'[k].z =
                    lineGroup[k].z + 1 - numOfMeshSets * terrainHeight]_vars

C7_Witness ==
    /\ terrainHeight = 30
    /\ numOfMeshSets = 6
    /\ frames = 30
    /\ wraps[1] = 1
    /\ meshGroup[1].z = 0 - 150

\* C8: once a load has failed, initScene is rejected, the failed load is the
\* last one ever started, a failed background load has been logged, and no
\* terrain tile is in the scene or in meshGroup or lineGroup; the background
\* is loaded at most once and the heightmap at most twice.
C8_LoadFailureAborts ==
    /\ Cardinality({k \in 1..Len(loads) : loads[k].what = "background"}) <= 1
    /\ Cardinality({k \in 1..Len(loads) : loads[k].what = "heightmap"}) <= 2
    /\ \A k \in 1..Len(loads) :
          loads[k].outcome = "error" =>
             /\ pc = "rejected"
             /\ k = Len(loads)
             /\ loads[k].what = "background" => consoleLog # <<>>
             /\ NoTerrainTile

\* The background texture failed to load.
C8_Witness ==
    /\ pc = "rejected"
    /\ loads = <<Load("background", "error")>>
    /\ consoleLog = <<"background error">>
    /\ NoTerrainTile

\* C9: after every updateScene call every mesh's position.z lies in
\* [-(numOfMeshSets - 1) * terrainHeight, terrainHeight) and its line has
\* the same position.z.
C9_TileWindow ==
    pc = "resolved" =>
       \A k \in 1..numOfMeshSets :
          /\ meshGroup[k].z >= 0 - (numOfMeshSets - 1) * terrainHeight
          /\ meshGroup[k].z < terrainHeight
          /\ lineGroup[k].z = meshGroup[k].z

====
